---- MODULE Spec2Model ----
(***************************************************************************)
(* Directed weighted graph (class Graph), its binary heap (class           *)
(* BinaryHeap), Dijkstra's shortest path and the stack-based reachability  *)
(* walk of complexCode.js, as a state machine.                             *)
(*                                                                         *)
(* A JavaScript Map is modelled as a sequence of [k, v] entries in         *)
(* insertion order, because the code iterates Maps (nodes.keys(),          *)
(* neighbors.entries(), node.edges.keys()) and the heap's tie-breaking     *)
(* depends on that order.  An edge object {from, to, weight} carries an    *)
(* identity `id`, because node.edges is keyed by object identity.          *)
(***************************************************************************)
EXTENDS Integers, Sequences, FiniteSets, TLC

\* ---- bounds and input sets ------------------------------------------------
\* Node keys offered to the operations.  0 is a falsy JavaScript value.
Keys == {0, 1}
\* Node payloads offered to addNode.
Values == {10, 20}
\* Edge weights offered to addEdge.
Weights == {-1, 1}
\* Cap on the number of edge objects alive in the node.edges maps.
MaxEdgeObjs == 2

\* The larger graphs on which findShortestPath is run: three keys, inserted
\* in one of two orders, two positive weights (so that a two-edge path can
\* beat a direct edge), a negative one, and room for a triangle.
PathKeys == {0, 1, 2}
PathNodeOrders == {<<0, 1, 2>>, <<2, 1, 0>>}
PathWeights == {-1, 1, 3}
MaxPathEdges == 3

\* The BinaryHeap used on its own: the nodes and distances its methods are
\* called with, and the most entries it is given.
HeapNodes == {1, 2, 3}
HeapDistances == {0, 1, 2}
MaxHeapLen == 4

\* JavaScript null (previous.set(node, null)) and Infinity.
Null == -1
Infinity == 1000

\* Error messages thrown by the code.
InvalidNodes == "Invalid node(s)."
InvalidStartEnd == "Invalid start and/or end node."
NoPathFound == "No path found."
InvalidNode == "Invalid node."

VARIABLES nodes, edges, last, sp, dfs, pq, pqLast

vars == <<nodes, edges, last, sp, dfs, pq, pqLast>>

\* ---- JavaScript Map, in insertion order -----------------------------------
MapHas(m, k) == \E i \in DOMAIN m : m[i].k = k

MapGet(m, k) == m[CHOOSE i \in DOMAIN m : m[i].k = k].v

MapSet(m, k, v) ==
  IF MapHas(m, k)
    THEN [i \in DOMAIN m |-> IF m[i].k = k THEN [k |-> k, v |-> v] ELSE m[i]]
    ELSE Append(m, [k |-> k, v |-> v])

MapDelete(m, k) ==
  LET keep(e) == e.k # k IN SelectSeq(m, keep)

MapKeys(m) == [i \in DOMAIN m |-> m[i].k]

\* ---- Graph ----------------------------------------------------------------
\* this.nodes is a Map in insertion order (findShortestPath iterates it):
\* nodeId -> [value, edges].  A node's edges Map (edge object -> true) is
\* kept as the set of its keys: the code only iterates it in removeNode,
\* where every step is a delete and the deletes commute.  this.edges is a
\* function from the source keys it holds to their Map target -> edge
\* object, in insertion order; the code never iterates this.edges itself.

\* this.edges.has(from)
EdgesHas(es, from) == from \in DOMAIN es

\* this.edges.set(from, m)
EdgesSet(es, from, m) ==
  [k \in DOMAIN es \cup {from} |-> IF k = from THEN m ELSE es[k]]

\* The edge objects alive in some node's edges map.
EdgeObjs(ns) == UNION {ns[i].v.edges : i \in DOMAIN ns}

\* Identity of a newly allocated { from, to, weight }: the records of two
\* objects differ in a field or in id.
FreshId(ns, from, to, weight) ==
  LET same == {e \in EdgeObjs(ns) :
                 e.from = from /\ e.to = to /\ e.weight = weight}
  IN CHOOSE n \in 0..Cardinality(same) : \A e \in same : e.id # n

\* this.edges.get(from)?.get(to) is defined.
HasEdge(es, from, to) == EdgesHas(es, from) /\ MapHas(es[from], to)

\* this.edges.get(from)?.get(to), where it is defined.
EdgeAt(es, from, to) == MapGet(es[from], to)

\* The (target, weight) pairs of the edges stored under source `from`.
OutEdges(es, from) ==
  IF EdgesHas(es, from)
    THEN {<<es[from][i].k, es[from][i].v.weight>> : i \in DOMAIN es[from]}
    ELSE {}

\* The operations of class Graph, on a graph g = [nodes, edges]; each gives
\* the graph it leaves and the error it throws ("" if none).
Ok(ns, es) == [nodes |-> ns, edges |-> es, err |-> ""]

\* addNode that overwrites the payload of a key it already holds.
addNodeOverwrite(g, nodeId, value) ==
  IF ~MapHas(g.nodes, nodeId)
    THEN Ok(MapSet(g.nodes, nodeId, [value |-> value, edges |-> {}]),
            g.edges)
    ELSE Ok(MapSet(g.nodes, nodeId,
                   [MapGet(g.nodes, nodeId) EXCEPT !.value = value]),
            g.edges)

Throw(g, msg) == [nodes |-> g.nodes, edges |-> g.edges, err |-> msg]

\* addNode(nodeId, value)
addNode(g, nodeId, value) ==
  IF ~MapHas(g.nodes, nodeId)
    THEN Ok(MapSet(g.nodes, nodeId, [value |-> value, edges |-> {}]),
            g.edges)
    ELSE Ok(g.nodes, g.edges)

\* The loop of removeNode over node.edges.keys() (lines 29-31).
ScrubEdges(es, objs) ==
  [from \in DOMAIN es |->
     LET keep(e) == \A edge \in objs : ~(edge.from = from /\ edge.to = e.k)
     IN SelectSeq(es[from], keep)]

\* removeNode(nodeId)
removeNode(g, nodeId) ==
  IF MapHas(g.nodes, nodeId)
    THEN Ok(MapDelete(g.nodes, nodeId),
            ScrubEdges(g.edges, MapGet(g.nodes, nodeId).edges))
    ELSE Ok(g.nodes, g.edges)

\* addEdge that makes a new Map for the source on every call.
AddEdgeIndexFresh(es, edge) ==
  EdgesSet(es, edge.from, <<[k |-> edge.to, v |-> edge]>>)

\* addEdge, the adjacency part (lines 41-45).
AddEdgeIndex(es, edge) ==
  IF ~EdgesHas(es, edge.from)
    THEN EdgesSet(es, edge.from, <<[k |-> edge.to, v |-> edge]>>)
    ELSE EdgesSet(es, edge.from, MapSet(es[edge.from], edge.to, edge))

\* addEdge that makes the new edge the only one its source node records.
AddEdgeNodeOnly(ns, edge) ==
  LET node == MapGet(ns, edge.from)
  IN MapSet(ns, edge.from, [node EXCEPT !.edges = {edge}])

\* addEdge, the node part (line 47).
AddEdgeNode(ns, edge) ==
  LET node == MapGet(ns, edge.from)
  IN MapSet(ns, edge.from, [node EXCEPT !.edges = @ \cup {edge}])

\* addEdge that checks the source only.
addEdgeSourceChecked(g, from, to, weight) ==
  IF ~MapHas(g.nodes, from)
    THEN Throw(g, InvalidNodes)
    ELSE LET edge == [id |-> FreshId(g.nodes, from, to, weight),
                      from |-> from, to |-> to, weight |-> weight]
         IN Ok(AddEdgeNode(g.nodes, edge), AddEdgeIndex(g.edges, edge))

\* addEdge(from, to, weight)
addEdge(g, from, to, weight) ==
  IF ~MapHas(g.nodes, from) \/ ~MapHas(g.nodes, to)
    THEN Throw(g, InvalidNodes)
    ELSE LET edge == [id |-> FreshId(g.nodes, from, to, weight),
                      from |-> from, to |-> to, weight |-> weight]
         IN Ok(AddEdgeNode(g.nodes, edge), AddEdgeIndex(g.edges, edge))

\* removeEdge that leaves the adjacency index as it is.
RemoveEdgeIndexKept(es, from, to) == es

\* removeEdge, the adjacency part (line 57).
RemoveEdgeIndex(es, from, to) ==
  EdgesSet(es, from, MapDelete(es[from], to))

\* removeEdge, the node part (line 58).
RemoveEdgeNode(ns, from, edge) ==
  LET node == MapGet(ns, from)
  IN MapSet(ns, from, [node EXCEPT !.edges = @ \ {edge}])

\* removeEdge(from, to)
removeEdge(g, from, to) ==
  IF ~MapHas(g.nodes, from) \/ ~MapHas(g.nodes, to)
    THEN Ok(g.nodes, g.edges)
    ELSE IF HasEdge(g.edges, from, to)
      THEN Ok(RemoveEdgeNode(g.nodes, from, EdgeAt(g.edges, from, to)),
              RemoveEdgeIndex(g.edges, from, to))
      ELSE Ok(g.nodes, g.edges)

\* The graph object.
graph == [nodes |-> nodes, edges |-> edges]

\* No call is in progress: the code is synchronous and single-threaded.
Idle == sp.pc \in {"idle", "done"} /\ dfs.pc \in {"idle", "done"}

\* No findShortestPath call has been made since the last other operation.
SpIdle == [pc |-> "idle", start |-> Null, end |-> Null, distances |-> <<>>,
           previous |-> <<>>, heap |-> <<>>, current |-> Null,
           kind |-> "none", path |-> <<>>, distance |-> 0, err |-> ""]

\* No getAllConnectedNodes call has been made since the last other operation.
DfsIdle == [pc |-> "idle", start |-> Null, connectedNodes |-> <<>>,
            stack |-> <<>>, err |-> ""]

\* A call of a mutating operation that leaves result r.
Mutate(r) ==
  /\ Idle
  /\ nodes' = r.nodes
  /\ edges' = r.edges
  /\ sp' = SpIdle
  /\ dfs' = DfsIdle

AddNode(nodeId, value) == Mutate(addNode(graph, nodeId, value))

RemoveNode(nodeId) == Mutate(removeNode(graph, nodeId))

AddEdge(from, to, weight) == Mutate(addEdge(graph, from, to, weight))

RemoveEdge(from, to) == Mutate(removeEdge(graph, from, to))

\* ---- BinaryHeap -----------------------------------------------------------
\* The heap array is a sequence; index i of the code is position i + 1.
At(heap, index) == heap[index + 1]

swap(heap, index1, index2) ==
  [heap EXCEPT ![index1 + 1] = heap[index2 + 1],
               ![index2 + 1] = heap[index1 + 1]]

RECURSIVE bubbleUp(_, _)
bubbleUp(heap, index) ==
  IF index > 0
    THEN LET parentIndex == (index - 1) \div 2
         IN IF At(heap, parentIndex).distance <= At(heap, index).distance
              THEN heap
              ELSE bubbleUp(swap(heap, index, parentIndex), parentIndex)
    ELSE heap

RECURSIVE bubbleDown(_, _)
bubbleDown(heap, index) ==
  LET length == Len(heap)
      leftIndex == index * 2 + 1
      rightIndex == index * 2 + 2
      s1 == IF leftIndex < length
               /\ At(heap, leftIndex).distance < At(heap, index).distance
              THEN leftIndex ELSE index
      smallestIndex ==
            IF rightIndex < length
               /\ At(heap, rightIndex).distance < At(heap, s1).distance
              THEN rightIndex ELSE s1
  IN IF index < length /\ smallestIndex # index
       THEN bubbleDown(swap(heap, index, smallestIndex), smallestIndex)
       ELSE heap

\* insert that appends the entry and leaves it where it is.
insertNoBubble(heap, distance, node) ==
  Append(heap, [distance |-> distance, node |-> node])

insert(heap, distance, node) ==
  LET pushed == Append(heap, [distance |-> distance, node |-> node])
  IN bubbleUp(pushed, Len(pushed) - 1)

\* extractMin that moves the last entry to the root and leaves it there.
extractMinHeapNoBubble(heap) ==
  LET last_ == heap[Len(heap)]
      popped == SubSeq(heap, 1, Len(heap) - 1)
  IN IF Len(popped) > 0
       THEN [popped EXCEPT ![1] = last_]
       ELSE popped

\* extractMin on a non-empty heap: the heap it leaves.
extractMinHeap(heap) ==
  LET last_ == heap[Len(heap)]
      popped == SubSeq(heap, 1, Len(heap) - 1)
  IN IF Len(popped) > 0
       THEN bubbleDown([popped EXCEPT ![1] = last_], 0)
       ELSE popped

\* extractMin on a non-empty heap: the node it returns.
extractMinNode(heap) == heap[1].node

\* findIndex: the first index holding the node, -1 if none.
findIndex(heap, node) ==
  IF \E i \in DOMAIN heap : heap[i].node = node
    THEN (CHOOSE i \in DOMAIN heap :
            /\ heap[i].node = node
            /\ \A j \in DOMAIN heap : heap[j].node = node => i <= j) - 1
    ELSE -1

\* updateDistance that sets the distance whether or not it is smaller.
updateDistanceAny(heap, node, distance) ==
  LET index == findIndex(heap, node)
  IN IF index # -1
       THEN bubbleUp([heap EXCEPT ![index + 1].distance = distance], index)
       ELSE heap

updateDistance(heap, node, distance) ==
  LET index == findIndex(heap, node)
  IN IF index # -1 /\ distance < At(heap, index).distance
       THEN bubbleUp([heap EXCEPT ![index + 1].distance = distance], index)
       ELSE heap

\* ---- findShortestPath -----------------------------------------------------
\* Number addition with JavaScript's Infinity.
Plus(a, b) == IF a = Infinity \/ b = Infinity THEN Infinity ELSE a + b

\* JavaScript truthiness of a node key or null, as tested by while (node).
Truthy(node) == node # Null /\ node # 0

\* The initialisation loop over this.nodes.keys() (lines 72-81).
RECURSIVE InitRun(_, _, _)
InitRun(keys, start, run) ==
  IF keys = <<>> THEN run
  ELSE LET node == Head(keys)
           d == IF node = start THEN 0 ELSE Infinity
       IN InitRun(Tail(keys), start,
                  [run EXCEPT !.distances = MapSet(@, node, d),
                              !.heap = insert(@, d, node),
                              !.previous = MapSet(@, node, Null)])

\* The path-building loop (lines 89-94).  A predecessor chain longer than
\* the number of nodes has a cycle, and the loop never ends: ok is FALSE.
RECURSIVE BuildPath(_, _, _)
BuildPath(previous, node, path) ==
  IF Len(path) > Len(previous) THEN [ok |-> FALSE, path |-> path]
  ELSE IF Truthy(node)
    THEN BuildPath(previous, MapGet(previous, node), <<node>> \o path)
    ELSE [ok |-> TRUE, path |-> path]

\* A relaxation that does not tell the heap of the shorter distance.
RelaxEdgeNoUpdate(run, to, edge) ==
  LET altDistance == Plus(MapGet(run.distances, run.current), edge.weight)
  IN IF MapHas(run.distances, to) /\ altDistance < MapGet(run.distances, to)
       THEN [run EXCEPT !.distances = MapSet(@, to, altDistance),
                        !.previous = MapSet(@, to, run.current)]
       ELSE run

\* One relaxation: the body of the for loop (lines 101-106).
RelaxEdge(run, to, edge) ==
  LET altDistance == Plus(MapGet(run.distances, run.current), edge.weight)
  IN IF MapHas(run.distances, to) /\ altDistance < MapGet(run.distances, to)
       THEN [run EXCEPT !.distances = MapSet(@, to, altDistance),
                        !.previous = MapSet(@, to, run.current),
                        !.heap = updateDistance(@, to, altDistance)]
       ELSE run

\* The for loop over neighbors.entries() (lines 100-107).
RECURSIVE RelaxAll(_, _)
RelaxAll(run, entries) ==
  IF entries = <<>> THEN run
  ELSE RelaxAll(RelaxEdge(run, Head(entries).k, Head(entries).v),
                Tail(entries))

\* The call, up to the first test of the while loop (lines 63-81).
FindShortestPath(start, end) ==
  /\ Idle
  /\ IF ~MapHas(nodes, start) \/ ~MapHas(nodes, end)
       THEN sp' = [SpIdle EXCEPT !.pc = "done", !.start = start,
                                 !.end = end, !.kind = "throw",
                                 !.err = InvalidStartEnd]
       ELSE sp' = InitRun(MapKeys(nodes), start,
                          [SpIdle EXCEPT !.pc = "loop", !.start = start,
                                         !.end = end])
  /\ dfs' = DfsIdle
  /\ UNCHANGED <<nodes, edges>>

\* The while test, extractMin and the test for the end node (lines 84-96),
\* and the throw after the loop (line 111).
SpExtract ==
  /\ sp.pc = "loop"
  /\ IF sp.heap = <<>>
       THEN sp' = [sp EXCEPT !.pc = "done", !.kind = "throw",
                             !.err = NoPathFound]
       ELSE LET current == extractMinNode(sp.heap)
                heap == extractMinHeap(sp.heap)
                built == BuildPath(sp.previous, sp.end, <<>>)
            IN IF current = sp.end
                 THEN sp' = [sp EXCEPT !.pc = "done", !.heap = heap,
                               !.current = current,
                               !.kind = IF built.ok THEN "return"
                                                    ELSE "diverge",
                               !.path = built.path,
                               !.distance = MapGet(sp.distances, sp.end)]
                 ELSE sp' = [sp EXCEPT !.pc = "relax", !.heap = heap,
                                       !.current = current]
  /\ UNCHANGED <<nodes, edges, dfs>>

\* The relaxation of the current node's outgoing edges (lines 98-108).
SpRelax ==
  /\ sp.pc = "relax"
  /\ sp' = [(IF EdgesHas(edges, sp.current)
               THEN RelaxAll(sp, edges[sp.current])
               ELSE sp) EXCEPT !.pc = "loop"]
  /\ UNCHANGED <<nodes, edges, dfs>>

\* ---- getAllConnectedNodes -------------------------------------------------
\* connectedNodes.add(current): a Set keeps insertion order.
SetAdd(set, x) ==
  IF \E i \in DOMAIN set : set[i] = x THEN set ELSE Append(set, x)

SetHas(set, x) == \E i \in DOMAIN set : set[i] = x

\* The for loop over neighbors.keys() (lines 127-131).
RECURSIVE PushUnvisited(_, _, _)
PushUnvisited(stack, tos, connectedNodes) ==
  IF tos = <<>> THEN stack
  ELSE PushUnvisited(IF ~SetHas(connectedNodes, Head(tos))
                       THEN Append(stack, Head(tos)) ELSE stack,
                     Tail(tos), connectedNodes)

\* The call, up to the first test of the while loop (lines 115-120).
GetAllConnectedNodes(nodeId) ==
  /\ Idle
  /\ IF ~MapHas(nodes, nodeId)
       THEN dfs' = [DfsIdle EXCEPT !.pc = "done", !.start = nodeId,
                                   !.err = InvalidNode]
       ELSE dfs' = [DfsIdle EXCEPT !.pc = "loop", !.start = nodeId,
                                   !.stack = <<nodeId>>]
  /\ sp' = SpIdle
  /\ UNCHANGED <<nodes, edges>>

\* A turn of the loop that reads the top of the stack and leaves it there.
DfsStepNoPop ==
  /\ dfs.pc = "loop"
  /\ IF Len(dfs.stack) > 0
       THEN LET current == dfs.stack[Len(dfs.stack)]
                added == SetAdd(dfs.connectedNodes, current)
            IN dfs' = [dfs EXCEPT
                 !.connectedNodes = added,
                 !.stack = IF EdgesHas(edges, current)
                             THEN PushUnvisited(dfs.stack,
                                    MapKeys(edges[current]), added)
                             ELSE dfs.stack]
       ELSE dfs' = [dfs EXCEPT !.pc = "done"]
  /\ UNCHANGED <<nodes, edges, sp>>

\* One iteration of the while loop, or the return (lines 121-135).
DfsStep ==
  /\ dfs.pc = "loop"
  /\ IF Len(dfs.stack) > 0
       THEN LET current == dfs.stack[Len(dfs.stack)]
                popped == SubSeq(dfs.stack, 1, Len(dfs.stack) - 1)
                added == SetAdd(dfs.connectedNodes, current)
            IN dfs' = [dfs EXCEPT
                 !.connectedNodes = added,
                 !.stack = IF EdgesHas(edges, current)
                             THEN PushUnvisited(popped,
                                    MapKeys(edges[current]), added)
                             ELSE popped]
       ELSE dfs' = [dfs EXCEPT !.pc = "done"]
  /\ UNCHANGED <<nodes, edges, sp>>

\* ---- history --------------------------------------------------------------
\* `last` records the operation just performed: its arguments, the error it
\* threw ("" if none), whether it found what it names (hit), and, for an
\* addEdge or a removeNode, the outgoing edges of the source or of the node
\* before the call (pre).  A removeEdge
\* that directly follows a successful addEdge of the same pair carries that
\* pre on and sets rt.
NoOp == [op |-> "new", a |-> Null, b |-> Null, w |-> 0, err |-> "",
         hit |-> FALSE, rt |-> FALSE, pre |-> {}]

AddNodeRec(nodeId, value) ==
  last' = [NoOp EXCEPT !.op = "addNode", !.a = nodeId, !.b = value,
                       !.err = addNode(graph, nodeId, value).err,
                       !.hit = MapHas(nodes, nodeId)]

RemoveNodeRec(nodeId) ==
  last' = [NoOp EXCEPT !.op = "removeNode", !.a = nodeId,
                       !.err = removeNode(graph, nodeId).err,
                       !.hit = MapHas(nodes, nodeId),
                       !.pre = OutEdges(edges, nodeId)]

AddEdgeRec(from, to, weight) ==
  last' = [NoOp EXCEPT !.op = "addEdge", !.a = from, !.b = to, !.w = weight,
                       !.err = addEdge(graph, from, to, weight).err,
                       !.hit = HasEdge(edges, from, to),
                       !.pre = OutEdges(edges, from)]

RemoveEdgeRec(from, to) ==
  LET follows == /\ last.op = "addEdge" /\ last.err = ""
                 /\ last.a = from /\ last.b = to
  IN last' = [NoOp EXCEPT !.op = "removeEdge", !.a = from, !.b = to,
                          !.err = removeEdge(graph, from, to).err,
                          !.hit = HasEdge(edges, from, to),
                          !.rt = follows,
                          !.pre = IF follows THEN last.pre ELSE {}]

QueryRec == last' = [NoOp EXCEPT !.op = "query"]

\* addEdge allocates an edge object only while there is room for one.
Room(cap, from, to) ==
  \/ ~MapHas(nodes, from)
  \/ ~MapHas(nodes, to)
  \/ Cardinality(EdgeObjs(nodes)) < cap

\* One turn of the loop of getAllConnectedNodes, as a step of the program.
DfsLoop == DfsStep /\ UNCHANGED <<last, pq, pqLast>>

\* ---- a BinaryHeap of its own ----------------------------------------------
\* pq is the heap array of a BinaryHeap object used directly; pqLast records
\* the method just called on it: its arguments, the node it returned (Null if
\* none), the error it threw ("" if none), and, for updateDistance, whether
\* the test of line 164 passed (hit).
PqNoOp == [op |-> "new", node |-> Null, distance |-> 0, ret |-> Null,
           err |-> "", hit |-> FALSE]

\* The TypeError of reading min.node when heap[0] is undefined (line 158).
TypeErrorNode == "Cannot read properties of undefined (reading 'node')"

\* extractMin(): the heap it leaves, the node it returns, the error it
\* throws.  On an empty heap heap[0] is undefined, pop() leaves the array
\* empty, and min.node throws.
extractMin(heap) ==
  IF heap = <<>>
    THEN [heap |-> <<>>, node |-> Null, err |-> TypeErrorNode]
    ELSE [heap |-> extractMinHeap(heap), node |-> extractMinNode(heap),
          err |-> ""]

Insert(distance, node) ==
  /\ Len(pq) < MaxHeapLen
  /\ pq' = insert(pq, distance, node)
  /\ pqLast' = [PqNoOp EXCEPT !.op = "insert", !.node = node,
                              !.distance = distance]
  /\ UNCHANGED <<nodes, edges, last, sp, dfs>>

ExtractMin ==
  /\ pq' = extractMin(pq).heap
  /\ pqLast' = [PqNoOp EXCEPT !.op = "extractMin",
                              !.ret = extractMin(pq).node,
                              !.err = extractMin(pq).err]
  /\ UNCHANGED <<nodes, edges, last, sp, dfs>>

UpdateDistance(node, distance) ==
  /\ pq' = updateDistance(pq, node, distance)
  /\ pqLast' = [PqNoOp EXCEPT
                 !.op = "updateDistance", !.node = node,
                 !.distance = distance,
                 !.hit = /\ findIndex(pq, node) # -1
                         /\ distance < At(pq, findIndex(pq, node)).distance]
  /\ UNCHANGED <<nodes, edges, last, sp, dfs>>

NextHeap ==
  \/ \E distance \in HeapDistances, node \in HeapNodes :
       Insert(distance, node)
  \/ ExtractMin
  \/ \E node \in HeapNodes, distance \in HeapDistances :
       UpdateDistance(node, distance)

\* ---- specification --------------------------------------------------------
\* The state after new Graph().
Init ==
  /\ nodes = <<>>
  /\ edges = <<>>
  /\ last = NoOp
  /\ sp = SpIdle
  /\ dfs = DfsIdle
  /\ pq = <<>>
  /\ pqLast = PqNoOp

Next ==
  \/ \E nodeId \in Keys, value \in Values :
       /\ AddNode(nodeId, value) /\ AddNodeRec(nodeId, value)
       /\ UNCHANGED <<pq, pqLast>>
  \/ \E nodeId \in Keys :
       /\ RemoveNode(nodeId) /\ RemoveNodeRec(nodeId)
       /\ UNCHANGED <<pq, pqLast>>
  \/ \E from \in Keys, to \in Keys, weight \in Weights :
       /\ Room(MaxEdgeObjs, from, to)
       /\ AddEdge(from, to, weight)
       /\ AddEdgeRec(from, to, weight)
       /\ UNCHANGED <<pq, pqLast>>
  \/ \E from \in Keys, to \in Keys :
       /\ RemoveEdge(from, to) /\ RemoveEdgeRec(from, to)
       /\ UNCHANGED <<pq, pqLast>>
  \/ \E start \in Keys, end \in Keys :
       /\ FindShortestPath(start, end) /\ QueryRec
       /\ UNCHANGED <<pq, pqLast>>
  \/ SpExtract /\ UNCHANGED <<last, pq, pqLast>>
  \/ SpRelax /\ UNCHANGED <<last, pq, pqLast>>
  \/ \E nodeId \in Keys :
       /\ GetAllConnectedNodes(nodeId) /\ QueryRec
       /\ UNCHANGED <<pq, pqLast>>
  \/ DfsLoop

Spec == Init /\ [][Next]_vars

\* getAllConnectedNodes runs in one call: once it has begun, its loop goes on
\* taking turns for as long as it has one to take.
FairSpec == Spec /\ WF_vars(DfsLoop)

\* The BinaryHeap used on its own, from new BinaryHeap().
SpecHeap == Init /\ [][NextHeap]_vars

\* ---- findShortestPath on larger graphs ------------------------------------
\* Graphs of three nodes, built by the operations above: addNode in one of
\* PathNodeOrders, then addEdge for a set of at most MaxPathEdges edges on
\* distinct (from, to) pairs, in ascending order of (from, to).
EmptyGraph == [nodes |-> <<>>, edges |-> <<>>, err |-> ""]

RECURSIVE AddNodes(_, _)
AddNodes(g, order) ==
  IF order = <<>> THEN g
  ELSE AddNodes(addNode(g, Head(order), 10), Tail(order))

PathEdges ==
  {[from |-> f, to |-> t, weight |-> w] :
     f \in PathKeys, t \in PathKeys, w \in PathWeights}

\* The sets of at most n edges, no two on the same (from, to) pair.
RECURSIVE EdgeSets(_)
EdgeSets(n) ==
  IF n = 0 THEN {{}}
  ELSE LET smaller == EdgeSets(n - 1)
           free(S) == {e \in PathEdges :
                         \A x \in S : x.from # e.from \/ x.to # e.to}
       IN smaller \cup UNION {{S \cup {e} : e \in free(S)} : S \in smaller}

\* addEdge for every edge of S, in ascending order of (from, to).
RECURSIVE AddEdges(_, _)
AddEdges(g, S) ==
  IF S = {} THEN g
  ELSE LET e == CHOOSE x \in S :
                  \A y \in S : x.from < y.from
                                 \/ (x.from = y.from /\ x.to <= y.to)
       IN AddEdges(addEdge(g, e.from, e.to, e.weight), S \ {e})

PathGraphs ==
  {AddEdges(AddNodes(EmptyGraph, order), S) :
     order \in PathNodeOrders, S \in EdgeSets(MaxPathEdges)}

\* The graph of the sample usage (lines 229-239), its keys "A", "B", "C"
\* and "D" numbered 1 to 4, and the same graph after removeNode("B")
\* (line 244).
A == 1
B == 2
C == 3
D == 4

SampleGraph ==
  LET g1 == addNode(EmptyGraph, A, 10)
      g2 == addNode(g1, B, 20)
      g3 == addNode(g2, C, 30)
      g4 == addNode(g3, D, 40)
      g5 == addEdge(g4, A, B, 5)
      g6 == addEdge(g5, B, C, 8)
      g7 == addEdge(g6, C, D, 12)
  IN addEdge(g7, A, D, 15)

SampleGraphRemoved == removeNode(SampleGraph, B)

\* Keys offered to findShortestPath on these graphs.
QueryKeys == PathKeys \cup {A, D}

InitPath ==
  /\ \E g \in PathGraphs \cup {SampleGraph, SampleGraphRemoved} :
       nodes = g.nodes /\ edges = g.edges
  /\ last = NoOp
  /\ sp = SpIdle
  /\ dfs = DfsIdle
  /\ pq = <<>>
  /\ pqLast = PqNoOp

\* One call on each graph: findShortestPath leaves the graph as it is, and a
\* second call would start from the same graph.
NextPath ==
  \/ \E start \in QueryKeys, end \in QueryKeys :
       /\ sp.pc = "idle" /\ FindShortestPath(start, end)
       /\ UNCHANGED <<last, pq, pqLast>>
  \/ SpExtract /\ UNCHANGED <<last, pq, pqLast>>
  \/ SpRelax /\ UNCHANGED <<last, pq, pqLast>>

SpecPath == InitPath /\ [][NextPath]_vars


\* ---- what the properties speak of ------------------------------------------
\* Every key an operation may name.
AllKeys == Keys \cup QueryKeys

\* The keys in the node registry.
NodeKeys == {nodes[i].k : i \in DOMAIN nodes}

\* There is an edge from -> to in the adjacency index.
Edge(from, to) == HasEdge(edges, from, to)

\* The weight of that edge.
W(from, to) == EdgeAt(edges, from, to).weight

\* The keys reachable from start by zero or more outgoing edges.
RECURSIVE ReachFrom(_)
ReachFrom(S) ==
  LET more == S \cup {t \in AllKeys : \E f \in S : Edge(f, t)}
  IN IF more = S THEN S ELSE ReachFrom(more)

Reachable(start, end) == end \in ReachFrom({start})

\* C1: the adjacency index holds no edge whose source or target key is
\* absent from the node registry.
AdjacencyConsistent ==
  \A from \in AllKeys, to \in AllKeys :
    Edge(from, to) => from \in NodeKeys /\ to \in NodeKeys

\* C2: findShortestPath between two present nodes, the end not reachable
\* from the start, throws "No path found." and returns no result.
UnreachableThrowsNoPath ==
  (/\ sp.pc = "done"
   /\ sp.start \in NodeKeys /\ sp.end \in NodeKeys
   /\ ~Reachable(sp.start, sp.end))
  => (sp.kind = "throw" /\ sp.err = NoPathFound)

\* C4: getAllConnectedNodes(start) returns exactly the keys that are in the
\* node registry and reachable from start.
ConnectedIsPresentReachable ==
  (dfs.pc = "done" /\ dfs.err = "")
  => {dfs.connectedNodes[i] : i \in DOMAIN dfs.connectedNodes}
       = ReachFrom({dfs.start}) \cap NodeKeys

\* C5: findShortestPath(s, s) for a present node s returns path [s] and
\* distance 0, whatever the value of the key.
SelfPathIsTrivial ==
  (sp.pc = "done" /\ sp.start \in NodeKeys /\ sp.end = sp.start)
  => (sp.kind = "return" /\ sp.path = <<sp.start>> /\ sp.distance = 0)

\* C9: no edge stored in the graph has a negative weight, and an addEdge
\* with a negative weight is rejected.
NoNegativeWeightStored ==
  /\ \A from \in AllKeys, to \in AllKeys :
       Edge(from, to) => W(from, to) >= 0
  /\ (last.op = "addEdge" /\ last.w < 0) => last.err # ""

\* C6 (as stated): a removeEdge(A, B) right after a successful
\* addEdge(A, B, w) leaves A's outgoing (target, weight) pairs as they were
\* before the addEdge.
RoundTripRestoresOutEdges ==
  (last.op = "removeEdge" /\ last.rt)
  => OutEdges(edges, last.a) = last.pre

\* C6 (amended): it leaves them as they were before the addEdge, less the
\* edge A -> B if there was one.
RoundTripDropsOnlyPair ==
  (last.op = "removeEdge" /\ last.rt)
  => OutEdges(edges, last.a) = {p \in last.pre : p[1] # last.b}

\* A round trip on a pair that had an edge before the insertion.
RoundTripOverExistingEdge ==
  /\ last.op = "removeEdge" /\ last.rt
  /\ \E p \in last.pre : p[1] = last.b

\* C7: addNode on a key the graph already holds throws nothing and leaves
\* the stored value, every other node and every edge unchanged.
AddExistingNodeIsNoOp ==
  [][(last'.op = "addNode" /\ last'.a \in NodeKeys)
       => (last'.err = "" /\ nodes' = nodes /\ edges' = edges)]_vars

\* addNode was called with a value other than the stored one, on a graph
\* with an edge.
AddedExistingNodeOtherValue ==
  /\ last.op = "addNode" /\ last.hit
  /\ MapGet(nodes, last.a).value # last.b
  /\ \E from \in AllKeys, to \in AllKeys : Edge(from, to)

\* C8: addEdge with an endpoint absent from the registry throws
\* "Invalid node(s)." and leaves the registry and the adjacency index as
\* they were.
AddEdgeUnknownNodeThrows ==
  [][(last'.op = "addEdge"
        /\ (last'.a \notin NodeKeys \/ last'.b \notin NodeKeys))
       => (last'.err = InvalidNodes /\ nodes' = nodes /\ edges' = edges)]_vars

\* addEdge threw on a graph that has a node and an edge, the target absent.
AddEdgeThrewOnMissingTarget ==
  /\ last.op = "addEdge" /\ last.err = InvalidNodes
  /\ last.a \in NodeKeys /\ last.b \notin NodeKeys
  /\ \E from \in AllKeys, to \in AllKeys : Edge(from, to)

\* C10: a successful addEdge(from, to, w) leaves exactly one edge for
\* (from, to), of weight w, and every other ordered pair as it was: with
\* the same edge object or with none.
AddEdgeSetsOnlyItsPair ==
  [][(last'.op = "addEdge" /\ last'.err = "")
       => /\ Cardinality({i \in DOMAIN edges'[last'.a] :
                            edges'[last'.a][i].k = last'.b}) = 1
          /\ EdgeAt(edges', last'.a, last'.b).weight = last'.w
          /\ \A f \in AllKeys, t \in AllKeys :
               (f # last'.a \/ t # last'.b)
               => /\ HasEdge(edges', f, t) <=> HasEdge(edges, f, t)
                  /\ HasEdge(edges, f, t)
                       => EdgeAt(edges', f, t) = EdgeAt(edges, f, t)]_vars

\* addEdge succeeded on a pair whose source already had another edge, and
\* the reverse pair has no edge.
AddedEdgeBesideAnother ==
  /\ last.op = "addEdge" /\ last.err = ""
  /\ \E t \in AllKeys : t # last.b /\ Edge(last.a, t)
  /\ last.a # last.b /\ ~Edge(last.b, last.a)

\* The walks of at most n edges from start, along the adjacency index.
RECURSIVE WalksFrom(_, _)
WalksFrom(start, n) ==
  IF n = 0 THEN {<<start>>}
  ELSE LET shorter == WalksFrom(start, n - 1)
       IN shorter \cup
          UNION {{Append(w, t) : t \in {x \in AllKeys : Edge(w[Len(w)], x)}} :
                   w \in shorter}

\* The sum of the weights along a walk.
RECURSIVE WalkWeight(_)
WalkWeight(w) ==
  IF Len(w) <= 1 THEN 0
  ELSE W(w[1], w[2]) + WalkWeight(Tail(w))

\* The walks from the start to the end of the findShortestPath call.
WalksToEnd ==
  {w \in WalksFrom(sp.start, Cardinality(NodeKeys)) : w[Len(w)] = sp.end}

NonNegativeWeights ==
  \A from \in AllKeys, to \in AllKeys : Edge(from, to) => W(from, to) >= 0

\* C3: on a graph of non-negative weights, findShortestPath between present
\* nodes, the end reachable from the start, returns a distance that is at
\* most the weight of every walk from start to end and is the weight of one
\* of them; on the sample graph it returns path [A, D] and distance 15.
ShortestDistanceIsMinimal ==
  /\ (/\ sp.pc = "done"
      /\ sp.start \in NodeKeys /\ sp.end \in NodeKeys
      /\ NonNegativeWeights
      /\ Reachable(sp.start, sp.end))
     => /\ sp.kind = "return"
        /\ \A w \in WalksToEnd : sp.distance <= WalkWeight(w)
        /\ \E w \in WalksToEnd : sp.distance = WalkWeight(w)
  /\ (/\ sp.pc = "done"
      /\ graph \in {[nodes |-> g.nodes, edges |-> g.edges] :
                      g \in {SampleGraph, SampleGraphRemoved}}
      /\ sp.start = A /\ sp.end = D)
     => (sp.kind = "return" /\ sp.path = <<A, D>> /\ sp.distance = 15)

\* findShortestPath returned the weight of a two-edge path, less than the
\* weight of the direct edge from start to end.
ReturnedLessThanDirectEdge ==
  /\ sp.pc = "done" /\ sp.kind = "return"
  /\ NonNegativeWeights
  /\ sp.start # sp.end
  /\ Edge(sp.start, sp.end)
  /\ sp.distance < W(sp.start, sp.end)

\* C11: right after addNode has added a key that was not in the registry
\* (so also after removeNode(k) followed by addNode(k, v)), the adjacency
\* index holds no edge out of that key and no edge into it.
ReAddedNodeHasNoEdges ==
  (last.op = "addNode" /\ ~last.hit)
  => \A other \in AllKeys :
       ~Edge(last.a, other) /\ ~Edge(other, last.a)

\* C19: every edge of the adjacency index whose source is in the registry is
\* in that source node's own edge set, and a removeNode of a present node
\* leaves no edge out of that node in the adjacency index.
NodeEdgeSetCoversAdjacency ==
  /\ \A from \in NodeKeys, to \in AllKeys :
       Edge(from, to)
       => EdgeAt(edges, from, to) \in MapGet(nodes, from).edges
  /\ (last.op = "removeNode" /\ last.hit)
     => \A to \in AllKeys : ~Edge(last.a, to)

\* removeNode has just removed a node that had two outgoing edges.
RemovedNodeWithOutEdges ==
  /\ last.op = "removeNode" /\ last.hit
  /\ Cardinality(last.pre) = 2

\* The nodes findShortestPath has extracted from the heap so far.
Extracted(run) ==
  {n \in AllKeys : MapHas(run.distances, n) /\ findIndex(run.heap, n) = -1}

\* C15: during findShortestPath, on any graph built by addEdge, a relaxation
\* step changes neither the tentative distance nor the predecessor of a node
\* that was extracted before it.
ExtractedStayFinal ==
  [][(sp.pc = "relax" /\ sp'.pc = "loop")
     => \A n \in Extracted(sp) :
          /\ MapGet(sp'.distances, n) = MapGet(sp.distances, n)
          /\ MapGet(sp'.previous, n) = MapGet(sp.previous, n)]_vars

\* Every consecutive pair of the path is an edge of the adjacency index
\* between two keys of the node registry.
IsEdgePath(path) ==
  \A i \in 1..(Len(path) - 1) :
    /\ path[i] \in NodeKeys /\ path[i + 1] \in NodeKeys
    /\ Edge(path[i], path[i + 1])

\* C16: whenever findShortestPath returns {path, distance}, the path starts
\* with the start key, ends with the end key, every consecutive pair of it is
\* an edge of the adjacency index between present nodes, and the distance is
\* the sum of the weights of those edges.
ReturnedPathIsWalk ==
  (sp.pc = "done" /\ sp.kind = "return")
  => /\ sp.path # <<>>
     /\ sp.path[1] = sp.start
     /\ sp.path[Len(sp.path)] = sp.end
     /\ IsEdgePath(sp.path)
     /\ sp.distance = WalkWeight(sp.path)

\* C17: a findShortestPath call ends by returning or throwing: the
\* predecessor links followed by the path-building loop form no cycle, and
\* the main loop extracts each node at most once.
ShortestPathTerminates ==
  /\ sp.pc = "done" => sp.kind \in {"return", "throw"}
  /\ Len(sp.heap) + Cardinality(Extracted(sp)) = Len(sp.distances)

\* ---- the BinaryHeap on its own ---------------------------------------------
\* The number of times the entry e is in the heap array.
Count(heap, e) == Cardinality({i \in DOMAIN heap : heap[i] = e})

\* Every entry the heap array can hold.
Entries == [distance : HeapDistances, node : HeapNodes]

\* C12: after any sequence of insert, extractMin and updateDistance the heap
\* array is in min-heap order: the entry at every index i > 0 has a distance
\* not below that of the entry at index floor((i - 1) / 2).
HeapOrdered ==
  \A index \in 1..(Len(pq) - 1) :
    At(pq, index).distance >= At(pq, (index - 1) \div 2).distance

\* An extractMin has left a heap of three nodes at three distances.
OrderedAfterExtractMin ==
  /\ pqLast.op = "extractMin" /\ pqLast.err = ""
  /\ Len(pq) = 3
  /\ Cardinality({pq[i].distance : i \in DOMAIN pq}) = 3
  /\ Cardinality({pq[i].node : i \in DOMAIN pq}) = 3

\* C13: extractMin on a non-empty heap returns the node of an entry whose
\* distance is at most every distance in the heap, removes that one entry
\* and leaves every other entry in the heap.
ExtractMinRemovesMinimum ==
  [][(pq # <<>> /\ pqLast'.op = "extractMin")
     => \E i \in DOMAIN pq :
          /\ pqLast'.ret = pq[i].node
          /\ pqLast'.err = ""
          /\ \A j \in DOMAIN pq : pq[i].distance <= pq[j].distance
          /\ \A e \in Entries :
               Count(pq', e) = Count(pq, e) - (IF e = pq[i] THEN 1 ELSE 0)]_vars

\* An extractMin has returned one node and left two others in the heap, at
\* two distances.
ExtractedOneOfThree ==
  /\ pqLast.op = "extractMin" /\ pqLast.err = ""
  /\ Len(pq) = 2
  /\ Cardinality({pq[1].node, pq[2].node, pqLast.ret}) = 3
  /\ pq[1].distance < pq[2].distance

\* C14: updateDistance(node, distance) on a heap that holds the node once or
\* not at all leaves the heap array as it is when the node is not in it or
\* the distance is not below the node's distance; otherwise the array holds
\* the same entries as before, but for the node's entry, which has the new
\* distance: no node is added or lost and no other node's distance changes,
\* equal distances included.
UpdateDistanceFrame ==
  [][pqLast'.op = "updateDistance"
     => LET node == pqLast'.node
            distance == pqLast'.distance
            mine == {i \in DOMAIN pq : pq[i].node = node}
        IN Cardinality(mine) <= 1
           => IF \A i \in mine : ~(distance < pq[i].distance)
                THEN pq' = pq
                ELSE LET old == pq[CHOOSE i \in mine : TRUE]
                         new == [old EXCEPT !.distance = distance]
                     IN \A e \in Entries :
                          Count(pq', e) = Count(pq, e)
                                          - (IF e = old THEN 1 ELSE 0)
                                          + (IF e = new THEN 1 ELSE 0)]_vars

\* updateDistance has lowered the distance of one of three nodes to the
\* distance of another.
LoweredToATie ==
  /\ pqLast.op = "updateDistance" /\ pqLast.hit
  /\ Len(pq) = 3
  /\ Cardinality({pq[i].node : i \in DOMAIN pq}) = 3
  /\ \E i \in DOMAIN pq :
       pq[i].node # pqLast.node /\ pq[i].distance = pqLast.distance

\* The error the priority queue is to fail with when it is empty.
EmptyQueue == "EmptyQueue"

\* C20: extractMin on an empty heap fails with the EmptyQueue error, returns
\* no node and leaves the heap empty.
EmptyExtractMinFails ==
  [][(pq = <<>> /\ pqLast'.op = "extractMin")
     => /\ pqLast'.err = EmptyQueue
        /\ pqLast'.ret = Null
        /\ pq' = <<>>]_vars

\* C18: getAllConnectedNodes(start) terminates on every graph, graphs with
\* cycles and self-loops included: a call that has entered its loop reaches
\* the end of the loop, the stack empty.
ConnectedNodesTerminates ==
  (dfs.pc = "loop") ~> (dfs.pc = "done" /\ dfs.stack = <<>>)

\* getAllConnectedNodes has returned both nodes of a two-node cycle.
ReturnedFromCycle ==
  /\ dfs.pc = "done" /\ dfs.err = ""
  /\ Edge(0, 1) /\ Edge(1, 0)
  /\ Len(dfs.connectedNodes) = 2

====
